---------------------------- MODULE Spec2Model ----------------------------
(***************************************************************************)
(* Model of the user-management front end:                                 *)
(*   - the data-access module (services/userServices.ts, typed revision):  *)
(*     getAllUsers, createUser, getUserById, updateUserById,               *)
(*     deleteUserById over apiCall / handleApiError;                       *)
(*   - the page component (pages/UserPage.tsx): its React state and the    *)
(*     asynchronous handlers that read and write it.                       *)
(* SvcSpec runs one data-access call against an arbitrary server answer.   *)
(* Spec runs the page: user actions interleaved with HTTP completions.     *)
(***************************************************************************)
EXTENDS Integers, Sequences, FiniteSets, Bags, TLC

VARIABLES
    svcPc,          \* "idle" | "inflight" | "done": position of the data-access call
    svcCall,        \* the call made: operation and arguments
    svcRequests,    \* the HTTP requests handed to fetch, in order
    svcResponse,    \* what fetch settled with
    svcResult,      \* how the call's promise settled
    users,          \* the page's React state: User[]
    loading,        \*   boolean
    error,          \*   ErrorState | null
    newUser,        \*   the new-user draft
    editingUser,    \*   User | null
    operationLoading,   \* the busy marker, string | null
    timers,         \* setTimeout callbacks that have not yet run
    frames,         \* bag of the handler invocations suspended at an await
    last            \* history: the HTTP completion the last step was, if it was one

pageVars ==
    <<users, loading, error, newUser, editingUser, operationLoading, timers,
      frames, last>>

svcVars == <<svcPc, svcCall, svcRequests, svcResponse, svcResult>>

vars == <<svcVars, pageVars>>

----------------------------------------------------------------------------
(* Bounds of the enumerated inputs *)

\* longest firstname / lastname tried
MaxLen == 2
\* longest array a list response carries
MaxArr == 3
\* most handler invocations suspended at once
MaxInFlight == 2
\* most pending timers
MaxTimers == 1

\* the page's upper age limit (validateUser)
MaxAge == 150

----------------------------------------------------------------------------
(* JavaScript values *)

Chars == {" ", "a"}

Strs(n) == UNION {[1..k -> Chars] : k \in 0..n}

\* a string-typed argument or field: undefined, or a string
UndefStr == [def |-> FALSE, s |-> <<>>]
Str(s) == [def |-> TRUE, s |-> s]

\* a number-typed argument or field: undefined, NaN, or a number
UndefNum == [k |-> "undefined", n |-> 0]
NaN == [k |-> "NaN", n |-> 0]
Num(n) == [k |-> "number", n |-> n]

RECURSIVE TrimStart(_)
TrimStart(s) ==
    IF s = <<>> THEN s
    ELSE IF Head(s) = " " THEN TrimStart(Tail(s)) ELSE s

RECURSIVE TrimEnd(_)
TrimEnd(s) ==
    IF s = <<>> THEN s
    ELSE IF s[Len(s)] = " " THEN TrimEnd(SubSeq(s, 1, Len(s) - 1)) ELSE s

\* String.prototype.trim
trim(s) == TrimEnd(TrimStart(s))

\* !x?.trim() for a string-typed x: undefined and "" are falsy
BlankAfterTrim(x) == ~x.def \/ trim(x.s) = <<>>

\* !x for a number-typed x: undefined, NaN and 0 are falsy
FalsyNum(x) == x.k # "number" \/ x.n = 0

\* Number(x) for a number-typed x: undefined becomes NaN
Number(x) == IF x.k = "number" THEN x ELSE NaN

\* x <= 0 in JavaScript: any comparison with NaN is false
LeqZero(x) == x.k = "number" /\ x.n <= 0

\* encodeURIComponent, character by character
EncodeChar(c) == IF c = " " THEN "%20" ELSE c
encodeURIComponent(s) == [i \in 1..Len(s) |-> EncodeChar(s[i])]

----------------------------------------------------------------------------
(* JSON on the wire *)

\* a field of a JSON object
Absent == [k |-> "absent", s |-> <<>>, n |-> 0]
JNull == [k |-> "null", s |-> <<>>, n |-> 0]
JStr(s) == [k |-> "string", s |-> s, n |-> 0]
JNum(n) == [k |-> "number", s |-> <<>>, n |-> n]

MkObj(fn, ln, ag, msg, id) ==
    [firstname |-> fn, lastname |-> ln, age |-> ag, message |-> msg, id |-> id]

EmptyObj == MkObj(Absent, Absent, Absent, Absent, Absent)

\* a response body: text that is not JSON, or a JSON value
TextB(s) == [t |-> "text", s |-> s, n |-> 0, o |-> EmptyObj, a |-> <<>>]
NullB == [t |-> "null", s |-> <<>>, n |-> 0, o |-> EmptyObj, a |-> <<>>]
NumB(n) == [t |-> "number", s |-> <<>>, n |-> n, o |-> EmptyObj, a |-> <<>>]
StrB(s) == [t |-> "string", s |-> s, n |-> 0, o |-> EmptyObj, a |-> <<>>]
ObjB(o) == [t |-> "object", s |-> <<>>, n |-> 0, o |-> o, a |-> <<>>]
ArrB(a) == [t |-> "array", s |-> <<>>, n |-> 0, o |-> EmptyObj, a |-> a]

\* JSON.stringify of one property: undefined is left out, NaN becomes null
StringifyStr(x) == IF x.def THEN JStr(x.s) ELSE Absent
StringifyNum(x) ==
    IF x.k = "undefined" THEN Absent
    ELSE IF x.k = "NaN" THEN JNull ELSE JNum(x.n)

\* JSON.stringify of a (partial) user, as the server decodes it
JSONStringify(u) ==
    MkObj(StringifyStr(u.firstname), StringifyStr(u.lastname),
          StringifyNum(u.age), Absent, Absent)

----------------------------------------------------------------------------
(* Type guards *)

isApiError(v) == v.t = "object" /\ v.o.message.k = "string"

\* variant: the age of an entry is not looked at
isUserMissingAgeCheck(v) ==
    /\ v.t = "object"
    /\ v.o.firstname.k = "string"
    /\ v.o.lastname.k = "string"

isUser(v) ==
    /\ v.t = "object"
    /\ v.o.firstname.k # "absent"
    /\ v.o.lastname.k # "absent"
    /\ v.o.age.k # "absent"
    /\ v.o.firstname.k = "string"
    /\ v.o.lastname.k = "string"
    /\ v.o.age.k = "number"

----------------------------------------------------------------------------
(* Errors *)

\* an Error instance and where its message comes from
MkError(src, text, msg, status) ==
    [isError |-> TRUE, src |-> src, text |-> text, msg |-> msg, status |-> status]

NoError == [isError |-> FALSE, src |-> "none", text |-> "", msg |-> <<>>, status |-> 0]

\* new Error("<literal>")
ErrLit(text) == MkError("literal", text, <<>>, 0)
\* new Error(errorData.message)
ErrBody(msg) == MkError("body", "", msg, 0)
\* new Error(`HTTP ${status}: ${statusText}`)
ErrHttp(status, statusText) == MkError("http", statusText, <<>>, status)
\* the SyntaxError response.json() rejects with
ErrSyntax == MkError("syntax", "Unexpected token in JSON", <<>>, 0)
\* the TypeError fetch rejects with
ErrFetch == MkError("fetch", "Failed to fetch", <<>>, 0)

\* every value thrown inside the service functions is an Error instance, so
\* the branches for ApiError objects, Response objects, code objects and
\* strings are never entered; the last branch is the fallback
handleApiError(e) ==
    IF e.isError THEN e
    ELSE ErrLit("Terjadi kesalahan tak terduga")

----------------------------------------------------------------------------
(* Settled promises *)

\* data apiCall hands back: the body read as text, or parsed as JSON
AsText(body) == [as |-> "text", body |-> body]
AsJson(body) == [as |-> "json", body |-> body]
NoData == AsText(TextB(<<>>))

Pending == [st |-> "pending", val |-> NoData, err |-> NoError]
Resolved(v) == [st |-> "resolved", val |-> v, err |-> NoError]
Rejected(e) == [st |-> "rejected", val |-> NoData, err |-> e]

----------------------------------------------------------------------------
(* HTTP *)

Statuses == {200, 404, 500}

StatusText(status) ==
    CASE status = 200 -> "OK"
      [] status = 404 -> "Not Found"
      [] OTHER -> "Internal Server Error"

\* content-type header: missing, JSON, or something else
ContentTypes == {"none", "application/json; charset=utf-8", "text/plain"}

IncludesApplicationJson(ct) == ct = "application/json; charset=utf-8"

MkResponse(net, status, ct, body) ==
    [net |-> net, status |-> status, statusText |-> StatusText(status),
     ct |-> ct, body |-> body]

\* fetch itself rejected: no response
NetworkFailure == MkResponse(TRUE, 0, "none", TextB(<<>>))

\* Response.ok
ResponseOk(r) == r.status >= 200 /\ r.status <= 299

MkRequest(method, path, hasBody, body) ==
    [method |-> method, path |-> path, hasBody |-> hasBody, body |-> body]

\* variant: the error body is never read
apiCallIgnoresBodyMessage(r) ==
    IF r.net THEN Rejected(handleApiError(ErrFetch))
    ELSE IF ~ResponseOk(r)
         THEN Rejected(handleApiError(ErrHttp(r.status, r.statusText)))
    ELSE IF r.ct = "none" \/ ~IncludesApplicationJson(r.ct)
         THEN Resolved(AsText(r.body))
    ELSE IF r.body.t = "text" THEN Rejected(handleApiError(ErrSyntax))
    ELSE Resolved(AsJson(r.body))

\* apiCall after fetch settled with r
apiCall(r) ==
    IF r.net THEN Rejected(handleApiError(ErrFetch))
    ELSE IF ~ResponseOk(r)
         THEN \* response.json() throws on a non-JSON body: the status message stays
              Rejected(handleApiError(
                IF r.body.t # "text" /\ isApiError(r.body)
                THEN ErrBody(r.body.o.message.s)
                ELSE ErrHttp(r.status, r.statusText)))
    ELSE IF r.ct = "none" \/ ~IncludesApplicationJson(r.ct)
         THEN Resolved(AsText(r.body))
    ELSE IF r.body.t = "text" THEN Rejected(handleApiError(ErrSyntax))
    ELSE Resolved(AsJson(r.body))

----------------------------------------------------------------------------
(* The five data-access operations.  Each has a part that runs before the  *)
(* request (validation, building the request) and a part that runs once    *)
(* fetch has settled.                                                      *)

MkUser(fn, ln, ag) == [firstname |-> fn, lastname |-> ln, age |-> ag]
NoUser == MkUser(UndefStr, UndefStr, UndefNum)
NoRequest == MkRequest("none", <<>>, FALSE, EmptyObj)

\* outcome of the part before the request: an error thrown, or a request
Throw(e) == [throws |-> TRUE, err |-> e, req |-> NoRequest]
Send(req) == [throws |-> FALSE, err |-> NoError, req |-> req]

\* the catch block every operation ends with
Rethrow(p) == IF p.st = "rejected" THEN Rejected(handleApiError(p.err)) ELSE p

getAllUsersStart == Send(MkRequest("GET", <<>>, FALSE, EmptyObj))

\* variant: no Array.isArray test
getAllUsersAcceptsAnything(r) ==
    LET p == apiCall(r) IN
    IF p.st = "rejected" THEN Rethrow(p)
    ELSE Resolved(AsJson(ArrB(SelectSeq(p.val.body.a, isUser))))

getAllUsers(r) ==
    LET p == apiCall(r) IN
    IF p.st = "rejected" THEN Rethrow(p)
    ELSE IF ~(p.val.as = "json" /\ p.val.body.t = "array")   \* !Array.isArray(data)
         THEN Rejected(handleApiError(
                ErrLit("Invalid response format: Expected array of users")))
    ELSE Resolved(AsJson(ArrB(SelectSeq(p.val.body.a, isUser))))

\* variant: the names are sent as given
createUserStartNoTrim(user) ==
    IF BlankAfterTrim(user.firstname)
    THEN Throw(ErrLit("Nama depan tidak boleh kosong"))
    ELSE IF BlankAfterTrim(user.lastname)
    THEN Throw(ErrLit("Nama belakang tidak boleh kosong"))
    ELSE IF FalsyNum(user.age) \/ LeqZero(user.age)
    THEN Throw(ErrLit("Usia harus lebih dari 0"))
    ELSE Send(MkRequest("POST", <<>>, TRUE,
              JSONStringify(MkUser(user.firstname, user.lastname,
                                   Number(user.age)))))

createUserStart(user) ==
    IF BlankAfterTrim(user.firstname)
    THEN Throw(ErrLit("Nama depan tidak boleh kosong"))
    ELSE IF BlankAfterTrim(user.lastname)
    THEN Throw(ErrLit("Nama belakang tidak boleh kosong"))
    ELSE IF FalsyNum(user.age) \/ LeqZero(user.age)
    THEN Throw(ErrLit("Usia harus lebih dari 0"))
    ELSE Send(MkRequest("POST", <<>>, TRUE,
              JSONStringify(MkUser(Str(trim(user.firstname.s)),
                                   Str(trim(user.lastname.s)),
                                   Number(user.age)))))

createUser(r) == Rethrow(apiCall(r))

\* variant: the id is not validated
getUserByIdStartNoCheck(id) ==
    Send(MkRequest("GET", encodeURIComponent(id.s), FALSE, EmptyObj))

getUserByIdStart(id) ==
    IF BlankAfterTrim(id) THEN Throw(ErrLit("ID pengguna tidak valid"))
    ELSE Send(MkRequest("GET", encodeURIComponent(id.s), FALSE, EmptyObj))

getUserById(r) ==
    LET p == apiCall(r) IN
    IF p.st = "rejected" THEN Rethrow(p)
    ELSE IF ~(p.val.as = "json" /\ isUser(p.val.body))
         THEN Rejected(handleApiError(
                ErrLit("Invalid user data received from server")))
    ELSE p

\* the three if-blocks of updateUserById, in order; the first that throws wins
updateUserByIdStart(id, updates) ==
    IF BlankAfterTrim(id) THEN Throw(ErrLit("ID pengguna tidak valid"))
    ELSE IF updates.firstname.def /\ trim(updates.firstname.s) = <<>>
    THEN Throw(ErrLit("Nama depan tidak boleh kosong"))
    ELSE IF updates.lastname.def /\ trim(updates.lastname.s) = <<>>
    THEN Throw(ErrLit("Nama belakang tidak boleh kosong"))
    ELSE IF updates.age.k # "undefined" /\ LeqZero(Number(updates.age))
    THEN Throw(ErrLit("Usia harus lebih dari 0"))
    ELSE LET cleanUpdates ==
                 MkUser(IF updates.firstname.def
                        THEN Str(trim(updates.firstname.s)) ELSE UndefStr,
                        IF updates.lastname.def
                        THEN Str(trim(updates.lastname.s)) ELSE UndefStr,
                        IF updates.age.k # "undefined"
                        THEN Number(updates.age) ELSE UndefNum)
         IN Send(MkRequest("PATCH", encodeURIComponent(id.s), TRUE,
                           JSONStringify(cleanUpdates)))

updateUserById(r) == Rethrow(apiCall(r))

deleteUserByIdStart(id) ==
    IF BlankAfterTrim(id) THEN Throw(ErrLit("ID pengguna tidak valid"))
    ELSE Send(MkRequest("DELETE", encodeURIComponent(id.s), FALSE, EmptyObj))

deleteUserById(r) == Rethrow(apiCall(r))

----------------------------------------------------------------------------
(* Inputs tried *)

OptStrs == {UndefStr} \cup {Str(s) : s \in Strs(MaxLen)}

AgeArgs == {UndefNum, NaN} \cup {Num(n) : n \in {-1, 0, 1, MaxAge, MaxAge + 1}}

Users == {MkUser(fn, ln, ag) : fn \in OptStrs, ln \in OptStrs, ag \in AgeArgs}

IdArgs == {UndefStr, Str(<<>>), Str(<<" ">>), Str(<<"a">>), Str(<<" ", "a", " ">>)}

\* objects a server may send
GoodUser1 == MkObj(JStr(<<"a">>), JStr(<<"a">>), JNum(1), Absent, JStr(<<"a">>))
GoodUser2 == MkObj(JStr(<<"a", "a">>), JStr(<<>>), JNum(0), Absent, Absent)
AgeIsString == MkObj(JStr(<<"a">>), JStr(<<"a">>), JStr(<<"a">>), Absent, JStr(<<"a">>))
NoLastname == MkObj(JStr(<<"a">>), Absent, JNum(1), Absent, JStr(<<"a">>))
FirstnameNull == MkObj(JNull, JStr(<<"a">>), JNum(1), Absent, Absent)
MessageObj == MkObj(Absent, Absent, Absent, JStr(<<"a">>), Absent)
EmptyMessageObj == MkObj(Absent, Absent, Absent, JStr(<<>>), Absent)
MessageIsNumber == MkObj(Absent, Absent, Absent, JNum(1), Absent)

Elements ==
    {ObjB(GoodUser1), ObjB(GoodUser2), ObjB(AgeIsString), ObjB(NoLastname),
     ObjB(FirstnameNull), NullB}

Arrays == {ArrB(a) : a \in UNION {[1..k -> Elements] : k \in 0..MaxArr}}

NonArrays ==
    {TextB(<<>>), TextB(<<"a">>), NullB, NumB(1), StrB(<<"a">>),
     ObjB(GoodUser1), ObjB(AgeIsString), ObjB(MessageObj),
     ObjB(EmptyMessageObj), ObjB(MessageIsNumber), ObjB(EmptyObj)}

\* the list endpoint is answered with arrays of every shape; the other
\* endpoints, whose code hands an array through unopened, with two of them
BodiesFor(op) ==
    IF op = "getAllUsers" THEN NonArrays \cup Arrays
    ELSE NonArrays \cup {ArrB(<<>>), ArrB(<<ObjB(GoodUser1)>>)}

ResponsesFor(op) ==
    {NetworkFailure} \cup
    {MkResponse(FALSE, st, ct, b) :
        st \in Statuses, ct \in ContentTypes, b \in BodiesFor(op)}

----------------------------------------------------------------------------
(* One data-access call *)

MkCall(op, id, user) == [op |-> op, id |-> id, user |-> user]
NoCall == MkCall("none", UndefStr, NoUser)

SvcInit ==
    /\ svcPc = "idle"
    /\ svcCall = NoCall
    /\ svcRequests = <<>>
    /\ svcResponse = NetworkFailure
    /\ svcResult = Pending

\* the call runs up to its first await: it throws, or hands a request to fetch
Begin(call, start) ==
    /\ svcCall' = call
    /\ svcResponse' = svcResponse
    /\ UNCHANGED pageVars
    /\ IF start.throws
       THEN /\ svcPc' = "done"
            /\ svcResult' = Rejected(handleApiError(start.err))
            /\ svcRequests' = svcRequests
       ELSE /\ svcPc' = "inflight"
            /\ svcResult' = Pending
            /\ svcRequests' = Append(svcRequests, start.req)

CallGetAllUsers ==
    /\ svcPc = "idle"
    /\ Begin(MkCall("getAllUsers", UndefStr, NoUser), getAllUsersStart)

CallCreateUser ==
    /\ svcPc = "idle"
    /\ \E user \in Users :
        Begin(MkCall("createUser", UndefStr, user), createUserStart(user))

CallGetUserById ==
    /\ svcPc = "idle"
    /\ \E id \in IdArgs :
        Begin(MkCall("getUserById", id, NoUser), getUserByIdStart(id))

CallUpdateUserById ==
    /\ svcPc = "idle"
    /\ \E id \in IdArgs, updates \in Users :
        Begin(MkCall("updateUserById", id, updates), updateUserByIdStart(id, updates))

CallDeleteUserById ==
    /\ svcPc = "idle"
    /\ \E id \in IdArgs :
        Begin(MkCall("deleteUserById", id, NoUser), deleteUserByIdStart(id))

AfterFetch(op, r) ==
    CASE op = "getAllUsers" -> getAllUsers(r)
      [] op = "createUser" -> createUser(r)
      [] op = "getUserById" -> getUserById(r)
      [] op = "updateUserById" -> updateUserById(r)
      [] OTHER -> deleteUserById(r)

\* fetch settles with r and the call runs to its end
FetchSettles ==
    /\ svcPc = "inflight"
    /\ \E r \in ResponsesFor(svcCall.op) :
        /\ svcResult' = AfterFetch(svcCall.op, r)
        /\ svcResponse' = r
    /\ svcPc' = "done"
    /\ UNCHANGED <<svcCall, svcRequests>>
    /\ UNCHANGED pageVars

SvcNext ==
    \/ CallGetAllUsers
    \/ CallCreateUser
    \/ CallGetUserById
    \/ CallUpdateUserById
    \/ CallDeleteUserById
    \/ FetchSettles

----------------------------------------------------------------------------
(* The page component: values of its state *)

\* messages are sequences of pieces, cut so that every keyword handleError
\* searches for is a piece of its own: includes(k) is "k is a piece"
Pieces(text) ==
    CASE text = "Nama depan tidak boleh kosong" -> <<"Nama depan tidak boleh ", "kosong">>
      [] text = "Nama belakang tidak boleh kosong" -> <<"Nama belakang tidak boleh ", "kosong">>
      [] text = "ID pengguna tidak valid" -> <<"ID pengguna ", "tidak valid">>
      [] text = "Failed to fetch" -> <<"Failed to ", "fetch">>
      [] OTHER -> <<text>>

StatusPiece(status) ==
    CASE status = 200 -> "200"
      [] status = 404 -> "404"
      [] OTHER -> "500"

\* Error.message
MessageOf(err) ==
    CASE err.src = "body" -> err.msg
      [] err.src = "http" -> <<"HTTP ", StatusPiece(err.status), ": ", err.text>>
      [] OTHER -> Pieces(err.text)

includes(message, keyword) == \E i \in 1..Len(message) : message[i] = keyword

\* ErrorState | null
NoErrorState == [set |-> FALSE, message |-> <<>>, type |-> "none"]
ErrorState(message, type) == [set |-> TRUE, message |-> message, type |-> type]

\* the page's User and NewUser
MkPageUser(id, fn, ln, ag) ==
    [id |-> id, firstname |-> fn, lastname |-> ln, age |-> ag]
EmptyNewUser == MkPageUser(<<>>, <<>>, <<>>, 0)

\* User | null
NotEditing == [set |-> FALSE, user |-> EmptyNewUser]
Editing(u) == [set |-> TRUE, user |-> u]

\* string | null: the busy marker
NoOperation == <<>>
CreateKey == <<"create">>
DeleteKey(id) == <<"delete-">> \o id
UpdateKey(id) == <<"update-">> \o id

\* a handler invocation suspended at an await, with what its closure holds;
\* caught is the message of the error its catch block is handling, if any
MkFrame(handler, awaiting, showLoading, id, editing) ==
    [handler |-> handler, awaiting |-> awaiting, showLoading |-> showLoading,
     id |-> id, editingUser |-> editing, caught |-> <<>>]

\* a user as the list response carries it, as the page holds it
PageUser(o) == MkPageUser(o.id.s, o.firstname.s, o.lastname.s, o.age.n)
PageUsers(a) == [i \in 1..Len(a) |-> PageUser(a[i].o)]

\* arguments the page passes to the data-access module
UserArg(u) == MkUser(Str(u.firstname), Str(u.lastname), Num(u.age))

\* message || fallback, for the value a mutation resolved with
MessageOr(val, fallback) ==
    IF val.body.t \in {"text", "string"}
    THEN IF val.body.s = <<>> THEN fallback ELSE val.body.s
    ELSE IF val.body.t = "null" \/ (val.body.t = "number" /\ val.body.n = 0)
         THEN fallback
         ELSE <<"[object Object]">>

----------------------------------------------------------------------------
(* The page component: handlers, as functions of the page state P          *)
(* (users, loading, error, newUser, editingUser, operationLoading, timers, *)
(* frames)                                                                 *)

setError(P, e) == [P EXCEPT !.error = e]
setOperationLoading(P, k) == [P EXCEPT !.operationLoading = k]

Classify(message) ==
    IF includes(message, "koneksi") \/ includes(message, "network")
       \/ includes(message, "fetch")
    THEN "warning"
    ELSE IF includes(message, "tidak ditemukan") \/ includes(message, "404")
    THEN "info"
    ELSE IF includes(message, "kosong") \/ includes(message, "tidak valid")
    THEN "warning"
    ELSE "error"

\* handleError for an Error instance; warnings and infos arm a 5 s timer
handleError(P, err) ==
    LET errorMessage == MessageOf(err)
        errorType == Classify(errorMessage)
    IN [P EXCEPT !.error = ErrorState(errorMessage, errorType),
                 !.timers = IF errorType # "error" THEN @ + 1 ELSE @]

\* fetchUsers up to its await
fetchUsersStart(P, showLoading, frame) ==
    LET p1 == IF showLoading THEN [P EXCEPT !.loading = TRUE] ELSE P
        p2 == setError(p1, NoErrorState)
    IN [p2 EXCEPT !.frames = @ (+) SetToBag({frame})]

\* variant: an empty list is reported and not stored
fetchUsersEndKeepsListOnEmpty(P, showLoading, res) ==
    LET p1 == IF res.st = "resolved"
              THEN LET data == PageUsers(res.val.body.a)
                   IN IF Len(data) = 0
                      THEN setError(P, ErrorState(<<"Belum ada pengguna dalam database">>, "info"))
                      ELSE [P EXCEPT !.users = data]
              ELSE handleError(P, res.err)
    IN IF showLoading THEN [p1 EXCEPT !.loading = FALSE] ELSE p1

\* fetchUsers from its await to its end, getAllUsers having settled as res
fetchUsersEnd(P, showLoading, res) ==
    LET p1 == IF res.st = "resolved"
              THEN LET data == PageUsers(res.val.body.a)
                       q == [P EXCEPT !.users = data]
                   IN IF Len(data) = 0
                      THEN setError(q, ErrorState(<<"Belum ada pengguna dalam database">>, "info"))
                      ELSE q
              ELSE handleError(P, res.err)
    IN IF showLoading THEN [p1 EXCEPT !.loading = FALSE] ELSE p1

\* [name]: name === "age" ? Math.max(0, parseInt(value) || 0) : value
ParsedAge(typed) ==
    LET n == IF typed.k = "number" THEN typed.n ELSE 0    \* parseInt(value) || 0
    IN IF n > 0 THEN n ELSE 0

handleNewUserChange(P, name, value) ==
    CASE name = "firstname" -> [P EXCEPT !.newUser.firstname = value.s]
      [] name = "lastname" -> [P EXCEPT !.newUser.lastname = value.s]
      [] OTHER -> [P EXCEPT !.newUser.age = ParsedAge(value.n)]

handleEditingUserChange(P, name, value) ==
    IF ~P.editingUser.set THEN P
    ELSE CASE name = "firstname" -> [P EXCEPT !.editingUser.user.firstname = value.s]
           [] name = "lastname" -> [P EXCEPT !.editingUser.user.lastname = value.s]
           [] OTHER -> [P EXCEPT !.editingUser.user.age = ParsedAge(value.n)]

\* variant: the rules of the data-access module, which has no upper limit
validateUserNoUpperLimit(user) ==
    IF trim(user.firstname) = <<>>
    THEN ErrorState(<<"Nama depan tidak boleh ", "kosong">>, "warning")
    ELSE IF trim(user.lastname) = <<>>
    THEN ErrorState(<<"Nama belakang tidak boleh ", "kosong">>, "warning")
    ELSE IF user.age = 0 \/ user.age <= 0
    THEN ErrorState(<<"Usia harus lebih dari 0">>, "warning")
    ELSE NoErrorState

\* validateUser: the warning it sets, or none
validateUser(user) ==
    IF trim(user.firstname) = <<>>
    THEN ErrorState(<<"Nama depan tidak boleh ", "kosong">>, "warning")
    ELSE IF trim(user.lastname) = <<>>
    THEN ErrorState(<<"Nama belakang tidak boleh ", "kosong">>, "warning")
    ELSE IF user.age = 0 \/ user.age <= 0
    THEN ErrorState(<<"Usia harus lebih dari 0">>, "warning")
    ELSE IF user.age > MaxAge
    THEN ErrorState(<<"Usia tidak boleh lebih dari 150 tahun">>, "warning")
    ELSE NoErrorState

\* handleCreateUser from the await of createUser to the await inside
\* fetchUsers (success), or to its end (failure)
handleCreateUserSettled(P, res) ==
    IF res.st = "resolved"
    THEN LET p1 == setError(P, ErrorState(
                     MessageOr(res.val, <<"Pengguna berhasil ditambahkan">>), "info"))
         IN fetchUsersStart(p1, FALSE,
                MkFrame("handleCreateUser", "getAllUsers", FALSE, <<>>, NotEditing))
    ELSE setOperationLoading(handleError(P, res.err), NoOperation)

\* handleCreateUser from the await of fetchUsers to its end
handleCreateUserEnd(P, res) ==
    LET p1 == fetchUsersEnd(P, FALSE, res)
        p2 == [p1 EXCEPT !.newUser = EmptyNewUser]
    IN setOperationLoading(p2, NoOperation)

\* handleCreateUser up to its first await
handleCreateUser(P) ==
    LET warning == validateUser(P.newUser) IN
    IF warning.set THEN setError(P, warning)
    ELSE LET p1 == setError(setOperationLoading(P, CreateKey), NoErrorState)
             start == createUserStart(UserArg(P.newUser))
         IN IF start.throws
            THEN handleCreateUserSettled(p1, Rejected(handleApiError(start.err)))
            ELSE [p1 EXCEPT !.frames = @ (+) SetToBag({
                    MkFrame("handleCreateUser", "createUser", FALSE, <<>>, NotEditing)})]

\* the catch block of handleDeleteUser and handleUpdateUser, up to the await
\* inside fetchUsers
CatchAndRefresh(P, handler, err) ==
    fetchUsersStart(handleError(P, err), FALSE,
                    [MkFrame(handler, "getAllUsers", FALSE, <<>>, NotEditing)
                        EXCEPT !.caught = MessageOf(err)])

\* variant: the finally block does not run after the re-fetch
RefreshedEndKeepsMarker(P, res) == fetchUsersEnd(P, FALSE, res)

\* the same handlers from the await of fetchUsers to their end
RefreshedEnd(P, res) ==
    setOperationLoading(fetchUsersEnd(P, FALSE, res), NoOperation)

RemoveUser(us, id) == SelectSeq(us, LAMBDA u : u.id # id)

\* the editingUser of the render whose handleDeleteUser runs; the handler
\* reads only its id
Captured(editing) ==
    IF editing.set THEN Editing(MkPageUser(editing.user.id, <<>>, <<>>, 0))
    ELSE NotEditing

\* handleDeleteUser from the await of deleteUserById on; f is the frame
handleDeleteUserSettled(P, f, res) ==
    IF res.st = "resolved"
    THEN LET p1 == setError(P, ErrorState(
                     MessageOr(res.val, <<"Pengguna berhasil dihapus">>), "info"))
             p2 == [p1 EXCEPT !.users = RemoveUser(@, f.id)]
             \* editingUser is the one the handler's closure captured
             p3 == IF f.editingUser.set /\ f.editingUser.user.id = f.id
                   THEN [p2 EXCEPT !.editingUser = NotEditing] ELSE p2
         IN setOperationLoading(p3, NoOperation)
    ELSE CatchAndRefresh(P, "handleDeleteUser", res.err)

\* handleDeleteUser(id), confirmed, up to its first await
handleDeleteUser(P, id) ==
    LET p1 == setError(setOperationLoading(P, DeleteKey(id)), NoErrorState)
        f == MkFrame("handleDeleteUser", "deleteUserById", FALSE, id,
                     Captured(P.editingUser))
        start == deleteUserByIdStart(Str(id))
    IN IF start.throws
       THEN handleDeleteUserSettled(p1, f, Rejected(handleApiError(start.err)))
       ELSE [p1 EXCEPT !.frames = @ (+) SetToBag({f})]

handleEditClick(P, user) ==
    setError([P EXCEPT !.editingUser = Editing(user)], NoErrorState)

ReplaceUser(us, e) == [i \in 1..Len(us) |-> IF us[i].id = e.id THEN e ELSE us[i]]

\* handleUpdateUser from the await of updateUserById on
handleUpdateUserSettled(P, f, res) ==
    IF res.st = "resolved"
    THEN LET p1 == setError(P, ErrorState(
                     MessageOr(res.val, <<"Pengguna berhasil diperbarui">>), "info"))
             p2 == [p1 EXCEPT !.users = ReplaceUser(@, f.editingUser.user)]
             p3 == [p2 EXCEPT !.editingUser = NotEditing]
         IN setOperationLoading(p3, NoOperation)
    ELSE CatchAndRefresh(P, "handleUpdateUser", res.err)

\* handleUpdateUser up to its first await
handleUpdateUser(P) ==
    IF ~P.editingUser.set THEN P
    ELSE LET e == P.editingUser.user
             warning == validateUser(e)
         IN IF warning.set THEN setError(P, warning)
            ELSE LET p1 == setError(setOperationLoading(P, UpdateKey(e.id)), NoErrorState)
                     f == MkFrame("handleUpdateUser", "updateUserById", FALSE, e.id,
                                  P.editingUser)
                     start == updateUserByIdStart(Str(e.id), UserArg(e))
                 IN IF start.throws
                    THEN handleUpdateUserSettled(p1, f, Rejected(handleApiError(start.err)))
                    ELSE [p1 EXCEPT !.frames = @ (+) SetToBag({f})]

handleCancelEdit(P) == setError([P EXCEPT !.editingUser = NotEditing], NoErrorState)

handleRetry(P) ==
    fetchUsersStart(setError(P, NoErrorState), TRUE,
                    MkFrame("fetchUsers", "getAllUsers", TRUE, <<>>, NotEditing))

\* the refresh button: fetchUsers(false)
RefreshClick(P) ==
    fetchUsersStart(P, FALSE, MkFrame("fetchUsers", "getAllUsers", FALSE, <<>>, NotEditing))

----------------------------------------------------------------------------
(* What the page renders: which view, and which controls are enabled *)

View(P) ==
    IF P.loading THEN "loading"
    ELSE IF P.error.set /\ P.error.type = "error" /\ Len(P.users) = 0 THEN "error"
    ELSE "main"

Busy(P) == P.operationLoading # NoOperation      \* !!operationLoading

CreateEnabled(P) == View(P) = "main" /\ P.operationLoading # CreateKey

EditFormEnabled(P) ==
    /\ View(P) = "main"
    /\ P.editingUser.set
    /\ P.operationLoading # UpdateKey(P.editingUser.user.id)

RefreshEnabled(P) == View(P) = "main" /\ ~Busy(P)

EditEnabled(P, user) ==
    /\ View(P) = "main"
    /\ ~(Busy(P) \/ (P.editingUser.set /\ P.editingUser.user.id = user.id))

\* variant: the delete button tests only its own key
DeleteEnabledOwnKeyOnly(P, user) ==
    /\ View(P) = "main"
    /\ P.operationLoading # DeleteKey(user.id)

DeleteEnabled(P, user) ==
    /\ View(P) = "main"
    /\ ~(P.operationLoading = DeleteKey(user.id) \/ Busy(P))

----------------------------------------------------------------------------
(* The page component: state machine *)

Page ==
    [users |-> users, loading |-> loading, error |-> error, newUser |-> newUser,
     editingUser |-> editingUser, operationLoading |-> operationLoading,
     timers |-> timers, frames |-> frames]

\* what the last step was, when it was an HTTP completion
MkEvent(handler, call, ok, message) ==
    [handler |-> handler, call |-> call, ok |-> ok, message |-> message,
     caught |-> <<>>, data |-> <<>>]
NoEvent == MkEvent("none", "none", TRUE, <<>>)

Settlement(f, res) ==
    [MkEvent(f.handler, f.awaiting, res.st = "resolved",
             IF res.st = "resolved" THEN <<>> ELSE MessageOf(res.err))
        EXCEPT !.caught = f.caught,
               !.data = IF f.awaiting = "getAllUsers" /\ res.st = "resolved"
                        THEN PageUsers(res.val.body.a) ELSE <<>>]

\* the step ends in page state Q
Commit(Q, event) ==
    /\ BagCardinality(Q.frames) <= MaxInFlight
    /\ Q.timers <= MaxTimers
    /\ users' = Q.users
    /\ loading' = Q.loading
    /\ error' = Q.error
    /\ newUser' = Q.newUser
    /\ editingUser' = Q.editingUser
    /\ operationLoading' = Q.operationLoading
    /\ timers' = Q.timers
    /\ frames' = Q.frames
    /\ last' = event
    /\ UNCHANGED svcVars

(* Inputs *)

\* users the server lists
Server1 == MkObj(JStr(<<"a">>), JStr(<<"a">>), JNum(1), Absent, JStr(<<"1">>))
Server2 == MkObj(JStr(<<"a">>), JStr(<<"a">>), JNum(1), Absent, JStr(<<"2">>))

Json(status, body) == MkResponse(FALSE, status, "application/json; charset=utf-8", body)
Plain(status, body) == MkResponse(FALSE, status, "text/plain", body)

ListResponses ==
    {Json(200, ArrB(<<>>)), Json(200, ArrB(<<ObjB(Server1)>>)),
     Json(200, ArrB(<<ObjB(Server1), ObjB(Server2)>>)),
     Plain(500, TextB(<<"a">>)), NetworkFailure}

MutationResponses ==
    {Plain(200, TextB(<<"a">>)), Plain(200, TextB(<<>>)),
     Plain(500, TextB(<<"a">>)), NetworkFailure}

\* what the user types into a form: the value of each text field, and what
\* parseInt makes of the value of the age field
Typed(s, n) == [s |-> s, n |-> n]
MkForm(fn, ln, ag) == [firstname |-> Typed(fn, NaN), lastname |-> Typed(ln, NaN),
                       age |-> Typed(<<>>, ag)]
TypedForms == {MkForm(<<"a">>, <<"a">>, Num(2))}

\* forms typed with every kind of value validateUser tells apart: a valid
\* user at the age limit, a blank firstname, an empty lastname, an age field
\* that does not parse, a negative age, an age above the limit
FormInputs ==
    {MkForm(<<"a">>, <<"a">>, Num(MaxAge)),
     MkForm(<<" ">>, <<"a">>, Num(MaxAge)),
     MkForm(<<"a">>, <<>>, Num(MaxAge)),
     MkForm(<<"a">>, <<"a">>, NaN),
     MkForm(<<"a">>, <<"a">>, Num(-1)),
     MkForm(<<"a">>, <<"a">>, Num(MaxAge + 1))}

\* the component after its first render and its mount effect, fetchUsers()
PageInit ==
    /\ users = <<>>
    /\ loading = TRUE
    /\ error = NoErrorState
    /\ newUser = EmptyNewUser
    /\ editingUser = NotEditing
    /\ operationLoading = NoOperation
    /\ timers = 0
    /\ frames = SetToBag({MkFrame("fetchUsers", "getAllUsers", TRUE, <<>>, NotEditing)})
    /\ last = NoEvent

(* User actions *)

Retry ==
    /\ View(Page) = "error"
    /\ Commit(handleRetry(Page), NoEvent)

DismissError ==
    /\ View(Page) = "main"
    /\ error.set
    /\ Commit(setError(Page, NoErrorState), NoEvent)

\* the user fills the new-user form: one change event per field, top to
\* bottom (the events touch newUser alone)
ChangeNewUser ==
    /\ CreateEnabled(Page)
    /\ \E form \in TypedForms :
          LET p1 == handleNewUserChange(Page, "firstname", form.firstname)
              p2 == handleNewUserChange(p1, "lastname", form.lastname)
              p3 == handleNewUserChange(p2, "age", form.age)
          IN Commit(p3, NoEvent)

SubmitCreate ==
    /\ CreateEnabled(Page)
    /\ Commit(handleCreateUser(Page), NoEvent)

\* the user fills the edit form, likewise
ChangeEditingUser ==
    /\ EditFormEnabled(Page)
    /\ \E form \in TypedForms :
          LET p1 == handleEditingUserChange(Page, "firstname", form.firstname)
              p2 == handleEditingUserChange(p1, "lastname", form.lastname)
              p3 == handleEditingUserChange(p2, "age", form.age)
          IN Commit(p3, NoEvent)

\* the same two form fills, with any of the typed forms
FillNewUser ==
    /\ CreateEnabled(Page)
    /\ \E form \in FormInputs :
          LET p1 == handleNewUserChange(Page, "firstname", form.firstname)
              p2 == handleNewUserChange(p1, "lastname", form.lastname)
              p3 == handleNewUserChange(p2, "age", form.age)
          IN Commit(p3, NoEvent)

FillEditingUser ==
    /\ EditFormEnabled(Page)
    /\ \E form \in FormInputs :
          LET p1 == handleEditingUserChange(Page, "firstname", form.firstname)
              p2 == handleEditingUserChange(p1, "lastname", form.lastname)
              p3 == handleEditingUserChange(p2, "age", form.age)
          IN Commit(p3, NoEvent)

SubmitUpdate ==
    /\ EditFormEnabled(Page)
    /\ Commit(handleUpdateUser(Page), NoEvent)

CancelEdit ==
    /\ EditFormEnabled(Page)
    /\ Commit(handleCancelEdit(Page), NoEvent)

Refresh ==
    /\ RefreshEnabled(Page)
    /\ Commit(RefreshClick(Page), NoEvent)

EditClick ==
    \E i \in 1..Len(users) :
        /\ EditEnabled(Page, users[i])
        /\ Commit(handleEditClick(Page, users[i]), NoEvent)

\* window.confirm answered with OK; answered with Cancel nothing happens
DeleteClick ==
    \E i \in 1..Len(users) :
        /\ DeleteEnabled(Page, users[i])
        /\ Commit(handleDeleteUser(Page, users[i].id), NoEvent)

(* HTTP completions and timers *)

\* the page state with the suspended invocation f resumed
Resumed(f) == [Page EXCEPT !.frames = @ (-) SetToBag({f})]

Awaits(f, handler, call) ==
    /\ BagIn(f, frames)
    /\ f.handler = handler
    /\ f.awaiting = call

FetchUsersSettlesWith(responses) ==
    \E f \in BagToSet(frames) : \E r \in responses :
        /\ Awaits(f, "fetchUsers", "getAllUsers")
        /\ LET res == getAllUsers(r) IN
           Commit(fetchUsersEnd(Resumed(f), f.showLoading, res),
                  Settlement(f, res))

FetchUsersSettles == FetchUsersSettlesWith(ListResponses)

CreateUserSettlesWith(responses) ==
    \E f \in BagToSet(frames) : \E r \in responses :
        /\ Awaits(f, "handleCreateUser", "createUser")
        /\ LET res == createUser(r) IN
           Commit(handleCreateUserSettled(Resumed(f), res), Settlement(f, res))

CreateUserSettles == CreateUserSettlesWith(MutationResponses)

CreateRefreshSettlesWith(responses) ==
    \E f \in BagToSet(frames) : \E r \in responses :
        /\ Awaits(f, "handleCreateUser", "getAllUsers")
        /\ LET res == getAllUsers(r) IN
           Commit(handleCreateUserEnd(Resumed(f), res), Settlement(f, res))

CreateRefreshSettles == CreateRefreshSettlesWith(ListResponses)

DeleteUserSettlesWith(responses) ==
    \E f \in BagToSet(frames) : \E r \in responses :
        /\ Awaits(f, "handleDeleteUser", "deleteUserById")
        /\ LET res == deleteUserById(r) IN
           Commit(handleDeleteUserSettled(Resumed(f), f, res),
                  Settlement(f, res))

DeleteUserSettles == DeleteUserSettlesWith(MutationResponses)

DeleteRefreshSettlesWith(responses) ==
    \E f \in BagToSet(frames) : \E r \in responses :
        /\ Awaits(f, "handleDeleteUser", "getAllUsers")
        /\ LET res == getAllUsers(r) IN
           Commit(RefreshedEnd(Resumed(f), res), Settlement(f, res))

DeleteRefreshSettles == DeleteRefreshSettlesWith(ListResponses)

UpdateUserSettlesWith(responses) ==
    \E f \in BagToSet(frames) : \E r \in responses :
        /\ Awaits(f, "handleUpdateUser", "updateUserById")
        /\ LET res == updateUserById(r) IN
           Commit(handleUpdateUserSettled(Resumed(f), f, res),
                  Settlement(f, res))

UpdateUserSettles == UpdateUserSettlesWith(MutationResponses)

UpdateRefreshSettlesWith(responses) ==
    \E f \in BagToSet(frames) : \E r \in responses :
        /\ Awaits(f, "handleUpdateUser", "getAllUsers")
        /\ LET res == getAllUsers(r) IN
           Commit(RefreshedEnd(Resumed(f), res), Settlement(f, res))

UpdateRefreshSettles == UpdateRefreshSettlesWith(ListResponses)

\* a setTimeout(() => setError(null), 5000) comes due
TimerFires ==
    /\ timers > 0
    /\ Commit([setError(Page, NoErrorState) EXCEPT !.timers = @ - 1], NoEvent)

Next ==
    \/ Retry
    \/ DismissError
    \/ ChangeNewUser
    \/ SubmitCreate
    \/ ChangeEditingUser
    \/ SubmitUpdate
    \/ CancelEdit
    \/ Refresh
    \/ EditClick
    \/ DeleteClick
    \/ FetchUsersSettles
    \/ CreateUserSettles
    \/ CreateRefreshSettles
    \/ DeleteUserSettles
    \/ DeleteRefreshSettles
    \/ UpdateUserSettles
    \/ UpdateRefreshSettles
    \/ TimerFires

\* the two forms: fills with valid and invalid values, submits, and the
\* HTTP completions that follow them
FormNext ==
    \/ FillNewUser
    \/ SubmitCreate
    \/ EditClick
    \/ FillEditingUser
    \/ SubmitUpdate
    \/ CancelEdit
    \/ FetchUsersSettles
    \/ CreateUserSettles
    \/ CreateRefreshSettles
    \/ UpdateUserSettles
    \/ UpdateRefreshSettles
    \/ TimerFires

Init == SvcInit /\ PageInit

Spec == Init /\ [][Next]_vars

SvcSpec == Init /\ [][SvcNext]_vars

FormSpec == Init /\ [][FormNext]_vars

\* the answers used to check termination: a list, empty or not, or a failure
\* for a list fetch; success or a failure for a mutation
LiveListResponses ==
    {Json(200, ArrB(<<>>)), Json(200, ArrB(<<ObjB(Server1)>>)),
     Plain(500, TextB(<<"a">>))}

LiveMutationResponses == {Plain(200, TextB(<<>>)), Plain(500, TextB(<<"a">>))}

\* the actions that start a list fetch, a create, an update or a delete, and
\* the HTTP completions
LiveNext ==
    \/ Retry
    \/ Refresh
    \/ ChangeNewUser
    \/ SubmitCreate
    \/ EditClick
    \/ SubmitUpdate
    \/ DeleteClick
    \/ FetchUsersSettlesWith(LiveListResponses)
    \/ CreateUserSettlesWith(LiveMutationResponses)
    \/ CreateRefreshSettlesWith(LiveListResponses)
    \/ DeleteUserSettlesWith(LiveMutationResponses)
    \/ DeleteRefreshSettlesWith(LiveListResponses)
    \/ UpdateUserSettlesWith(LiveMutationResponses)
    \/ UpdateRefreshSettlesWith(LiveListResponses)

\* every HTTP request the page is waiting for eventually settles
EveryRequestSettles ==
    /\ WF_vars(FetchUsersSettlesWith(LiveListResponses))
    /\ WF_vars(CreateUserSettlesWith(LiveMutationResponses))
    /\ WF_vars(CreateRefreshSettlesWith(LiveListResponses))
    /\ WF_vars(DeleteUserSettlesWith(LiveMutationResponses))
    /\ WF_vars(DeleteRefreshSettlesWith(LiveListResponses))
    /\ WF_vars(UpdateUserSettlesWith(LiveMutationResponses))
    /\ WF_vars(UpdateRefreshSettlesWith(LiveListResponses))

FairSpec == Init /\ [][LiveNext]_vars /\ EveryRequestSettles

----------------------------------------------------------------------------
(* Properties of the data-access module, checked under SvcSpec *)

Called(op) == svcPc # "idle" /\ svcCall.op = op
Settled(op) == svcPc = "done" /\ svcCall.op = op /\ svcRequests # <<>>
Answered2xx == ~svcResponse.net /\ svcResponse.status \in 200..299

\* the User constraints: names non-empty after trimming, 0 < age <= 150
NameOk(x) == x.def /\ \E i \in 1..Len(x.s) : x.s[i] # " "
AgeOk(x) == x.k = "number" /\ 0 < x.n /\ x.n <= MaxAge
ValidUser(u) == NameOk(u.firstname) /\ NameOk(u.lastname) /\ AgeOk(u.age)

\* s without its leading and trailing blanks, stated on indices
Stripped(s) ==
    LET I == {i \in 1..Len(s) : s[i] # " "}
        lo == CHOOSE i \in I : \A j \in I : i <= j
        hi == CHOOSE i \in I : \A j \in I : j <= i
    IN IF I = {} THEN <<>> ELSE [k \in 1..(hi - lo + 1) |-> s[lo + k - 1]]

ValidationMessages ==
    {"Nama depan tidak boleh kosong", "Nama belakang tidak boleh kosong",
     "Usia harus lebih dari 0", "ID pengguna tidak valid"}

RejectedLocally ==
    /\ svcPc = "done"
    /\ svcResult.st = "rejected"
    /\ svcResult.err.src = "literal"
    /\ svcResult.err.text \in ValidationMessages
    /\ svcRequests = <<>>

\* C1: every input to create() that violates the User constraints (a name
\* blank after trimming, or an age that is missing, not a number, zero,
\* negative or above 150) is rejected with a validation error and no HTTP
\* request is issued.
C1_CreateRejectsEveryViolation ==
    (Called("createUser") /\ ~ValidUser(svcCall.user)) => RejectedLocally

\* the POST create() must send for user u
ExpectedPost(u) ==
    MkRequest("POST", <<>>, TRUE,
              MkObj(JStr(Stripped(u.firstname.s)), JStr(Stripped(u.lastname.s)),
                    JNum(u.age.n), Absent, Absent))

\* the body can be read the way its content type asks: as text, or as JSON
Readable(r) == ~IncludesApplicationJson(r.ct) \/ r.body.t # "text"

\* C2 as stated: for every valid input exactly one POST with the trimmed
\* fields is sent to the base URL, and on every 2xx answer create() resolves
\* with the message the server provided.
C2_CreateResolvesOnEvery2xx ==
    (Called("createUser") /\ ValidUser(svcCall.user)) =>
        /\ svcRequests = <<ExpectedPost(svcCall.user)>>
        /\ (svcPc = "done" /\ Answered2xx) =>
              /\ svcResult.st = "resolved"
              /\ svcResult.val.body = svcResponse.body

\* C2 as amended: for every valid input exactly one POST with the trimmed
\* fields is sent to the base URL; on a 2xx answer whose body can be read as
\* its content type asks, create() resolves with that body (the raw text, or
\* the parsed JSON value when the content type is JSON); on a 2xx answer
\* declared JSON whose body does not parse, create() rejects with the parse
\* error.
C2_CreateSendsTrimmedAndResolves ==
    (Called("createUser") /\ ValidUser(svcCall.user)) =>
        /\ svcRequests = <<ExpectedPost(svcCall.user)>>
        /\ (svcPc = "done" /\ Answered2xx /\ Readable(svcResponse)) =>
              /\ svcResult.st = "resolved"
              /\ svcResult.val.body = svcResponse.body
              /\ svcResult.val.as =
                    IF IncludesApplicationJson(svcResponse.ct) THEN "json" ELSE "text"
        /\ (svcPc = "done" /\ Answered2xx /\ ~Readable(svcResponse)) =>
              /\ svcResult.st = "rejected"
              /\ svcResult.err = ErrSyntax

C2_Witness ==
    /\ Settled("createUser")
    /\ svcCall.user = MkUser(Str(<<" ", "a">>), Str(<<"a", " ">>), Num(MaxAge))
    /\ svcResponse = MkResponse(FALSE, 200, "text/plain", TextB(<<"a">>))
    /\ svcResult = Resolved(AsText(TextB(<<"a">>)))

\* what list() is handed is a JSON array
AnsweredArray ==
    IncludesApplicationJson(svcResponse.ct) /\ svcResponse.body.t = "array"

WellFormed(e) ==
    /\ e.t = "object"
    /\ e.o.firstname.k = "string"
    /\ e.o.lastname.k = "string"
    /\ e.o.age.k = "number"

\* C4: when list() is answered 2xx with a JSON array, it resolves with
\* exactly the entries that have a string firstname, a string lastname and
\* a numeric age, in the order of the response; the other entries are
\* dropped and the call does not fail.
C4_ListKeepsWellFormedInOrder ==
    (Settled("getAllUsers") /\ Answered2xx /\ AnsweredArray) =>
        LET a == svcResponse.body.a
            W == {i \in 1..Len(a) : WellFormed(a[i])}
            rank(i) == Cardinality({j \in W : j <= i})
        IN /\ svcResult.st = "resolved"
           /\ svcResult.val.as = "json"
           /\ svcResult.val.body.t = "array"
           /\ Len(svcResult.val.body.a) = Cardinality(W)
           /\ \A i \in W : svcResult.val.body.a[rank(i)] = a[i]

C4_Witness ==
    /\ Settled("getAllUsers")
    /\ Answered2xx /\ AnsweredArray
    /\ svcResponse.body.a = <<ObjB(GoodUser2), ObjB(AgeIsString), ObjB(GoodUser1)>>
    /\ svcResult = Resolved(AsJson(ArrB(<<ObjB(GoodUser2), ObjB(GoodUser1)>>)))

BlankId(id) == id.def /\ \A i \in 1..Len(id.s) : id.s[i] = " "

\* C5: getById, updateById and deleteById called with an empty or
\* whitespace-only id reject with the validation error for the id and issue
\* no HTTP request.
C5_BlankIdRejected ==
    \A op \in {"getUserById", "updateUserById", "deleteUserById"} :
        (Called(op) /\ BlankId(svcCall.id)) =>
            /\ RejectedLocally
            /\ svcResult.err.text = "ID pengguna tidak valid"

C5_Witness ==
    /\ Called("updateUserById")
    /\ svcCall.id = Str(<<" ">>)
    /\ ValidUser(svcCall.user)
    /\ RejectedLocally

\* C6: for each of the five operations, on a non-2xx answer the operation
\* rejects; the message is the body's message field when the body is a JSON
\* object with a string message, and "HTTP <status>: <statusText>" otherwise,
\* also when the body is not JSON.
C6_Non2xxRejects ==
    (svcPc = "done" /\ svcRequests # <<>> /\ ~svcResponse.net /\ ~Answered2xx) =>
        LET b == svcResponse.body IN
        /\ svcResult.st = "rejected"
        /\ IF b.t = "object" /\ b.o.message.k = "string"
           THEN svcResult.err.src = "body" /\ svcResult.err.msg = b.o.message.s
           ELSE /\ svcResult.err.src = "http"
                /\ svcResult.err.status = svcResponse.status
                /\ svcResult.err.text = svcResponse.statusText

C6_Witness ==
    /\ Settled("getUserById")
    /\ svcResponse.status = 404
    /\ svcResponse.body = ObjB(MessageObj)
    /\ svcResult = Rejected(ErrBody(<<"a">>))

C6_WitnessUnparseable ==
    /\ Settled("deleteUserById")
    /\ svcResponse.status = 500
    /\ svcResponse.body = TextB(<<"a">>)
    /\ svcResult = Rejected(ErrHttp(500, "Internal Server Error"))

\* a field present in updates that create() would reject
RejectedByCreate(u) ==
    \/ u.firstname.def /\ ~NameOk(u.firstname)
    \/ u.lastname.def /\ ~NameOk(u.lastname)
    \/ u.age.k # "undefined" /\ (u.age.k = "NaN" \/ u.age.n <= 0)

\* the PATCH updateById(id, u) must send
ExpectedPatch(id, u) ==
    MkRequest("PATCH", encodeURIComponent(id.s), TRUE,
              MkObj(IF u.firstname.def THEN JStr(Stripped(u.firstname.s)) ELSE Absent,
                    IF u.lastname.def THEN JStr(Stripped(u.lastname.s)) ELSE Absent,
                    IF u.age.k = "number" THEN JNum(u.age.n) ELSE Absent,
                    Absent, Absent))

\* C7: updateById with a non-empty id rejects with a validation error and
\* sends nothing if and only if some field present in updates would be
\* rejected by create() (a name blank after trimming, an age that is zero,
\* negative or not a number); otherwise it sends one PATCH holding only the
\* present fields, trimmed.
C7_UpdateValidatesLikeCreate ==
    (Called("updateUserById") /\ ~BlankAfterTrim(svcCall.id)) =>
        IF RejectedByCreate(svcCall.user)
        THEN RejectedLocally
        ELSE svcRequests = <<ExpectedPatch(svcCall.id, svcCall.user)>>


----------------------------------------------------------------------------
(* Properties of the page, checked under Spec *)

MutatingCalls == {"createUser", "updateUserById", "deleteUserById"}

\* the suspended invocations that wait for the answer to call
InFlight(call) == {f \in BagToSet(frames) : f.awaiting = call}

\* the key the handler behind f wrote into the busy marker
KeyOf(f) ==
    CASE f.awaiting = "createUser" -> CreateKey
      [] f.awaiting = "deleteUserById" -> DeleteKey(f.id)
      [] OTHER -> UpdateKey(f.id)

\* C8: while a create, update or delete call is in flight the busy marker
\* holds that operation's key, and the same operation is not in flight twice.
C8_MarkerHoldsKeyWhileInFlight ==
    \A call \in MutatingCalls : \A f \in InFlight(call) :
        /\ operationLoading = KeyOf(f)
        /\ CopiesIn(f, frames) = 1

\* C9, as the specification words it: while a mutating call is in flight only
\* the control of that operation is disabled; refresh, create, and edit and
\* delete of the other users stay enabled.
C9_UnrelatedControlsStayEnabled ==
    \A call \in MutatingCalls : \A f \in InFlight(call) :
        (View(Page) = "main" /\ operationLoading = KeyOf(f)) =>
            /\ RefreshEnabled(Page)
            /\ call # "createUser" => CreateEnabled(Page)
            /\ \A i \in 1..Len(users) :
                  users[i].id # f.id =>
                      /\ DeleteEnabled(Page, users[i])
                      /\ EditEnabled(Page, users[i])
                         \/ (editingUser.set /\ editingUser.user.id = users[i].id)

\* the step starts a delete: one more invocation waits for deleteUserById
StartsDelete ==
    \E f \in BagToSet(frames') :
        /\ f.awaiting = "deleteUserById"
        /\ CopiesIn(f, frames') > CopiesIn(f, frames)

\* the step is a click on the refresh button: one more fetchUsers(false)
StartsRefresh ==
    \E f \in BagToSet(frames') :
        /\ f.handler = "fetchUsers" /\ ~f.showLoading
        /\ CopiesIn(f, frames') > CopiesIn(f, frames)

\* the step is a click on a row's edit button: a new editing target
StartsEdit ==
    /\ editingUser'.set
    /\ ~editingUser.set \/ editingUser'.user.id # editingUser.user.id

\* C9, as the code has it: while the busy marker is set, whichever operation
\* set it, no step starts a delete, a list refresh or the edit of a row, for
\* any user; what can start meanwhile is a create (the marker is not "create")
\* and the update of the user being edited (the marker is not "update-<id>").
C9_BusyMarkerBlocksRowsAndRefresh ==
    [][Busy(Page) => ~(StartsDelete \/ StartsRefresh \/ StartsEdit)]_vars

\* a create and an update run concurrently, the marker is set, and the rows
\* of both users are on screen with their edit and delete controls disabled
C9_Witness ==
    /\ InFlight("createUser") # {}
    /\ InFlight("updateUserById") # {}
    /\ Busy(Page)
    /\ View(Page) = "main"
    /\ Len(users) = 2
    /\ \A i \in 1..Len(users) :
          ~EditEnabled(Page, users[i]) /\ ~DeleteEnabled(Page, users[i])
    /\ ~RefreshEnabled(Page)

\* C10: when the create, update or delete call of a page handler has just
\* failed, that handler has a re-fetch of the list in flight.
C10_FailedMutationRefetches ==
    (last.call \in MutatingCalls /\ ~last.ok) =>
        \E f \in InFlight("getAllUsers") : f.handler = last.handler


\* the step was the end of a handler: fetchUsers, or handleCreateUser after a
\* failed create, or any of the three handlers after its re-fetch
HandlerFinished ==
    \/ last.call = "getAllUsers"
    \/ last.call = "createUser" /\ ~last.ok

\* the failure the handler that just finished went through: the one of its
\* own call, kept in its catch block, or else the one of the call that ended it
FailureOf(event) ==
    IF event.caught # <<>> THEN event.caught
    ELSE IF ~event.ok THEN event.message
    ELSE <<>>

\* C11: when a handler whose operation failed has just finished, the page
\* displays the message of that failure, also when the handler's re-fetch
\* succeeded.
C11_FailureMessageDisplayed ==
    (HandlerFinished /\ FailureOf(last) # <<>>) =>
        error.set /\ error.message = FailureOf(last)


\* the step is the settlement of a call the page was waiting for
IsSettlement(event) == event.call # "none"

\* C12: list fetches in flight are never cancelled (an invocation stops
\* waiting only when its own call settles, one per step), and each list
\* response that settles replaces the whole list with its data, whatever else
\* is in flight and whichever request it answers; a list fetch that fails
\* leaves the list as it is.  So after several fetches the list is the data of
\* the response that settled last.
C12_LastListResponseWins ==
    [][/\ BagCardinality(frames') < BagCardinality(frames) =>
             /\ IsSettlement(last')
             /\ BagCardinality(frames') = BagCardinality(frames) - 1
       /\ (IsSettlement(last') /\ last'.call = "getAllUsers") =>
             users' = IF last'.ok THEN last'.data ELSE users
      ]_vars

\* two list fetches were in flight at once; one has just settled and put its
\* two users on the page, over the other list the page showed, while the
\* second fetch is still in flight
C12_Witness ==
    /\ last.call = "getAllUsers" /\ last.ok
    /\ Len(last.data) = 2
    /\ users = last.data
    /\ \E f \in InFlight("getAllUsers") : f.handler = "fetchUsers"


----------------------------------------------------------------------------
(* Properties of the forms, checked under FormSpec *)

\* a draft or edited user the page may send: names with a character that is
\* not a blank, and 0 < age <= 150
ValidPageUser(u) ==
    /\ \E i \in 1..Len(u.firstname) : u.firstname[i] # " "
    /\ \E i \in 1..Len(u.lastname) : u.lastname[i] # " "
    /\ 0 < u.age /\ u.age <= MaxAge

\* the step starts a create: one more invocation waits for createUser
StartsCreate ==
    \E f \in BagToSet(frames') :
        /\ f.awaiting = "createUser"
        /\ CopiesIn(f, frames') > CopiesIn(f, frames)

\* the step starts an update
StartsUpdate ==
    \E f \in BagToSet(frames') :
        /\ f.awaiting = "updateUserById"
        /\ CopiesIn(f, frames') > CopiesIn(f, frames)

\* the step is the submit of the create form, of the edit form
SubmitsCreate == CreateEnabled(Page) /\ Page' = handleCreateUser(Page)
SubmitsUpdate == EditFormEnabled(Page) /\ Page' = handleUpdateUser(Page)

WarningShown == error'.set /\ error'.type = "warning"

\* C13: a create is started only with a valid draft and an update only with
\* a valid edited user; the submit of any other draft or edited user starts
\* no call and leaves a warning on the page.
C13_OnlyValidUsersAreSent ==
    [][/\ StartsCreate => ValidPageUser(newUser)
       /\ StartsUpdate => editingUser.set /\ ValidPageUser(editingUser.user)
       /\ (SubmitsCreate /\ ~ValidPageUser(newUser)) =>
             ~StartsCreate /\ frames' = frames /\ WarningShown
       /\ (SubmitsUpdate /\ ~ValidPageUser(editingUser.user)) =>
             ~StartsUpdate /\ frames' = frames /\ WarningShown
      ]_vars

\* a draft above the age limit was submitted: the warning is on the page and
\* no create is in flight
C13_Witness ==
    /\ newUser.age = MaxAge + 1
    /\ error = ErrorState(<<"Usia tidak boleh lebih dari 150 tahun">>, "warning")
    /\ InFlight("createUser") = {}
    /\ operationLoading = NoOperation

\* the messages handleCreateUser shows for a create that succeeded: the
\* server's text, or the default text when it is empty
SuccessMessages ==
    {MessageOr(createUser(r).val, <<"Pengguna berhasil ditambahkan">>) :
        r \in {q \in MutationResponses : createUser(q).st = "resolved"}}

\* handleCreateUser has just finished after a create and a re-fetch that
\* both succeeded
CreateFinishedOk ==
    last.handler = "handleCreateUser" /\ last.call = "getAllUsers" /\ last.ok

\* C15: when handleCreateUser finishes after a successful create and a
\* successful refresh, the page displays the create's success message with
\* severity info, and the draft is empty names and age 0.
C15_SuccessMessageDisplayed ==
    CreateFinishedOk =>
        /\ error.set /\ error.type = "info" /\ error.message \in SuccessMessages
        /\ newUser = EmptyNewUser

\* the step is the run of a setTimeout callback
TimerRuns == timers' < timers

\* C16: a timer never removes a displayed message of severity error.
C16_TimerNeverClearsError ==
    [][(TimerRuns /\ error.set /\ error.type = "error") => error' = error]_vars

\* the step is the successful completion of the delete invocation f
DeleteCompletes(f) ==
    /\ f.handler = "handleDeleteUser" /\ f.awaiting = "deleteUserById"
    /\ CopiesIn(f, frames') < CopiesIn(f, frames)
    /\ last'.call = "deleteUserById" /\ last'.ok

\* C17: when the delete of a user completes successfully, the user is not in
\* the list and is not the editing target, whatever happened on the page while
\* the delete was in flight.
C17_DeletedUserGone ==
    [][\A f \in BagToSet(frames) :
          DeleteCompletes(f) =>
             /\ \A i \in 1..Len(users') : users'[i].id # f.id
             /\ ~(editingUser'.set /\ editingUser'.user.id = f.id)
      ]_vars

----------------------------------------------------------------------------
(* Termination of the page's operations, checked under FairSpec *)

\* C18: when every HTTP request eventually settles, the loading flag set by
\* a list fetch eventually becomes false, and the busy marker set by a
\* create, update or delete eventually becomes null, also when the operation
\* or its re-fetch failed.
C18_ReturnsToIdle ==
    /\ loading ~> ~loading
    /\ Busy(Page) ~> ~Busy(Page)

\* a mutation failed, its re-fetch failed too, and the page is idle again
C18_Witness ==
    /\ last.handler \in {"handleDeleteUser", "handleUpdateUser"}
    /\ last.call = "getAllUsers" /\ ~last.ok /\ last.caught # <<>>
    /\ ~loading
    /\ operationLoading = NoOperation
    /\ frames = EmptyBag

=============================================================================
